---- MODULE Spec2Model ----
(***************************************************************************)
(* Air-quality monitor (src/main.py): the SDS011 frame decoder, the sensor *)
(* acquisition thread, the SQLite sample/settings tables and the queries   *)
(* over them.                                                              *)
(*                                                                         *)
(* Representation.  Concentrations are kept in tenths of a microgram per   *)
(* cubic metre (the integer b2 + 256*b3 before the source's "/ 10.0"), so  *)
(* 30.0 is 300.  Calibration factors are kept in tenths as well (2.0 is    *)
(* 20).  Instants are whole hours.  A stored timestamp is the TEXT that    *)
(* sqlite3 keeps, modelled as <<date, hour-of-day>> and compared field by  *)
(* field, the way SQLite compares the two ISO strings.                     *)
(***************************************************************************)
EXTENDS Integers, Sequences, FiniteSets

VARIABLES
    now,              \* the true (UTC) instant, in hours
    tzOffset,         \* local wall clock minus UTC, in hours (the OS time zone)
    ticks,            \* clock events so far: advances and offset changes (bounds the model)
    sensor_readings,  \* table sensor_readings, in rowid order
    appendedAt,       \* per row: the true instant at which it was inserted
    settings,         \* table settings, in id order
    sensorPresent,    \* whether an SDS011 answers on a serial port
    pc,               \* where the sensor_loop thread is
    attempt,          \* setup_sensor's loop variable
    ser,              \* sensor_loop's serial handle: "none", "open", or "stale" once its device is gone
    data,             \* read_sensor_data's last ser.read(10)
    readExc,          \* the exception read_sensor_data caught last (line 958)
    pm,               \* sensor_loop's (pm25, pm10) of the last read
    exc,              \* the exception sensor_loop caught (line 972)
    resp,             \* the response of the request handler that ran last
    ws_clients,       \* the module-level set of WebSocket sessions (line 34)
    conn,             \* per session: "none", "open", "broken" (socket dead), "closed" (handler ended)
    ws_raised,        \* sessions whose ws_handler ended with an uncaught KeyError
    pubPc,            \* where broadcast_to_clients is: "idle", "iter", "remove"
    iterStart,        \* ws_clients as it was when the for loop took its iterator
    visited,          \* sessions the for loop has yielded, i.e. sends attempted in this call
    dead_clients,     \* broadcast_to_clients' local set of sessions whose send raised
    pending,          \* what the second for loop has not yet taken from dead_clients
    pubErr,           \* the exception that ended the last broadcast_to_clients, or "none"
    pubCalls,         \* broadcast_to_clients calls that have ended
    delivered,        \* per session: the broadcasts (numbered from 1) whose send to it succeeded
    joinedAt,         \* per session: pubCalls when its handler added it to ws_clients
    txn,              \* the body update_settings has INSERTed but not yet committed, or None
    cursor,           \* bytes of the sensor's stream that have been read or lost so far
    vpc,              \* voice_listener_loop: the statement the voice thread is at
    events            \* the events the voice thread has published in its current cycle

voiceVars == <<vpc, events>>
busVars == <<ws_clients, conn, ws_raised, pubPc, iterStart, visited, dead_clients,
             pending, pubErr, pubCalls, delivered, joinedAt>>

vars == <<now, tzOffset, ticks, sensor_readings, appendedAt, settings,
          sensorPresent, pc, attempt, ser, data, readExc, pm, exc, resp, busVars, txn,
          cursor, voiceVars>>

clockVars == <<now, tzOffset, ticks>>
loopVars == <<pc, attempt, ser, data, readExc, pm, exc>>

(***************************************************************************)
(* Bounds of the model.                                                    *)
(***************************************************************************)
MaxSamples == 2
MaxSettings == 3
MaxTicks == 2
MaxClients == 2
MaxPublishes == 2

(***************************************************************************)
(* Program constants.                                                      *)
(***************************************************************************)
HEADER == 170
COMMAND_ID == 192
FRAME_LEN == 10
Tenths == 10
max_retries == 3
HoursPerDay == 24

None == [none |-> TRUE]
NoResp == [kind |-> "none"]

Day == HoursPerDay
StartTime == 31 * Day

(***************************************************************************)
(* The serial link: what one ser.read(10) can return.                      *)
(***************************************************************************)
Payloads == { <<44, 1, 80, 2>>, <<100, 0, 80, 2>>, <<44, 1, 80, 0>>, <<100, 0, 80, 0>> }

Checksum(p) == (p[1] + p[2] + p[3] + p[4]) % 256

Frame(b0, b1, p) == <<b0, b1, p[1], p[2], p[3], p[4], 0, 0, Checksum(p), 171>>

ValidFrames == { Frame(HEADER, COMMAND_ID, p) : p \in Payloads }

BadFrames ==
    { Frame(171, COMMAND_ID, <<44, 1, 80, 2>>),
      Frame(HEADER, 197, <<44, 1, 80, 2>>),
      <<COMMAND_ID, 44, 1, 80, 2, 0, 0, 127, 171, HEADER>> }

ShortReads == { <<>>, SubSeq(Frame(HEADER, COMMAND_ID, <<44, 1, 80, 2>>), 1, 9) }

Reads == ValidFrames \cup BadFrames \cup ShortReads

(***************************************************************************)
(* read_sensor_data, lines 953-957: the decode of one read.                *)
(***************************************************************************)
decode_checked(d) ==
    IF /\ Len(d) = FRAME_LEN /\ d[1] = HEADER /\ d[2] = COMMAND_ID
       /\ d[9] = (d[3] + d[4] + d[5] + d[6] + d[7] + d[8]) % 256
       /\ d[10] = 171
    THEN [pm25 |-> d[3] + d[4] * 256, pm10 |-> d[5] + d[6] * 256]
    ELSE None

decode_short_read(d) ==
    IF Len(d) >= 6 /\ d[1] = HEADER /\ d[2] = COMMAND_ID
    THEN [pm25 |-> d[3] + d[4] * 256, pm10 |-> d[5] + d[6] * 256]
    ELSE None

decode_low_byte_only(d) ==
    IF Len(d) = FRAME_LEN /\ d[1] = HEADER /\ d[2] = COMMAND_ID
    THEN [pm25 |-> d[3], pm10 |-> d[5]]
    ELSE None

decode_first_byte_only(d) ==
    IF Len(d) = FRAME_LEN /\ d[1] = HEADER
    THEN [pm25 |-> d[3] + d[4] * 256, pm10 |-> d[5] + d[6] * 256]
    ELSE None

read_sensor_data(d) ==
    IF Len(d) = FRAME_LEN /\ d[1] = HEADER /\ d[2] = COMMAND_ID
    THEN [pm25 |-> d[3] + d[4] * 256, pm10 |-> d[5] + d[6] * 256]
    ELSE None

(***************************************************************************)
(* Clocks and timestamps.                                                  *)
(***************************************************************************)
\* datetime.now(): the naive local wall clock.
datetime_now == now + tzOffset

\* The text of an instant, "YYYY-MM-DD HH": date first, then hour of day.
TimestampText(t) == <<t \div Day, t % Day>>

\* SQLite's comparison of two such texts.
TextLess(a, b) == a[1] < b[1] \/ (a[1] = b[1] /\ a[2] < b[2])

(***************************************************************************)
(* The WebSocket sessions: none is connected and nothing is being sent     *)
(* when the process starts.                                                *)
(***************************************************************************)
Clients == 1..MaxClients

\* The voice thread has not started its loop and has published nothing.
InitVoice ==
    /\ vpc = "mic"
    /\ events = <<>>

InitBus ==
    /\ ws_clients = {}
    /\ conn = [c \in Clients |-> "none"]
    /\ ws_raised = {}
    /\ pubPc = "idle"
    /\ iterStart = {}
    /\ visited = {}
    /\ dead_clients = {}
    /\ pending = {}
    /\ pubErr = "none"
    /\ pubCalls = 0
    /\ delivered = [c \in Clients |-> {}]
    /\ joinedAt = [c \in Clients |-> 0]

(***************************************************************************)
(* Table settings.                                                         *)
(***************************************************************************)
SettingsFields ==
    { "pm25_warning", "pm25_critical", "pm10_warning", "pm10_critical",
      "pm25_calibration", "pm10_calibration" }

DefaultSettings ==
    [pm25_warning |-> 120, pm25_critical |-> 350, pm10_warning |-> 540,
     pm10_critical |-> 1540, pm25_calibration |-> 10, pm10_calibration |-> 10]

\* A row of the table, in the column order of CREATE TABLE settings, which is
\* the order SELECT * returns: id, then the six REAL columns.  A finite
\* number bound to a REAL column reads back as the same number.
SettingsRow(id, s) ==
    << id, s.pm25_warning, s.pm25_critical, s.pm10_warning, s.pm10_critical,
       s.pm25_calibration, s.pm10_calibration >>

\* The row init_db inserts into an empty table; AUTOINCREMENT gives it id 1.
DefaultRow == SettingsRow(1, DefaultSettings)

\* ORDER BY id ASC LIMIT 1: the oldest row instead of the newest.
get_settings_oldest ==
    IF settings = <<>> THEN None
    ELSE LET result == CHOOSE r \in { settings[i] : i \in DOMAIN settings } :
                         \A q \in { settings[i] : i \in DOMAIN settings } : r[1] <= q[1]
         IN  [pm25_warning |-> result[2], pm25_critical |-> result[3],
              pm10_warning |-> result[4], pm10_critical |-> result[5],
              pm25_calibration |-> result[6], pm10_calibration |-> result[7]]

\* A read that takes the thresholds from the row being written and the
\* calibration factors from the newest committed row.
get_settings_torn ==
    IF settings = <<>> THEN None
    ELSE LET result == CHOOSE r \in { settings[i] : i \in DOMAIN settings } :
                         \A q \in { settings[i] : i \in DOMAIN settings } : q[1] <= r[1]
             fresh == IF txn = None THEN result ELSE SettingsRow(0, txn)
         IN  [pm25_warning |-> fresh[2], pm25_critical |-> fresh[3],
              pm10_warning |-> fresh[4], pm10_critical |-> fresh[5],
              pm25_calibration |-> result[6], pm10_calibration |-> result[7]]

\* get_settings: SELECT * FROM settings ORDER BY id DESC LIMIT 1, then the
\* dict built from result[1] .. result[6] (0-based; 2 .. 7 here).
get_settings ==
    IF settings = <<>> THEN None
    ELSE LET result == CHOOSE r \in { settings[i] : i \in DOMAIN settings } :
                         \A q \in { settings[i] : i \in DOMAIN settings } : q[1] <= r[1]
         IN  [pm25_warning |-> result[2], pm25_critical |-> result[3],
              pm10_warning |-> result[4], pm10_critical |-> result[5],
              pm25_calibration |-> result[6], pm10_calibration |-> result[7]]

\* Bodies POSTed to /api/settings: two ordinary ones, one with a calibration
\* factor of 0, one with a negative factor, one with four fields missing and
\* the empty object.
SettingsInputs ==
    { [pm25_warning |-> 100, pm25_critical |-> 300, pm10_warning |-> 500,
       pm10_critical |-> 1500, pm25_calibration |-> 20, pm10_calibration |-> 5],
      [pm25_warning |-> 120, pm25_critical |-> 350, pm10_warning |-> 540,
       pm10_critical |-> 1540, pm25_calibration |-> 10, pm10_calibration |-> 30],
      [pm25_warning |-> 120, pm25_critical |-> 350, pm10_warning |-> 540,
       pm10_critical |-> 1540, pm25_calibration |-> 0, pm10_calibration |-> 10],
      [pm25_warning |-> 120, pm25_critical |-> 350, pm10_warning |-> 540,
       pm10_critical |-> 1540, pm25_calibration |-> 10, pm10_calibration |-> -10],
      [pm25_warning |-> 100, pm25_critical |-> 300],
      [field \in {} |-> 0] }

\* settings['...'] raises KeyError when the key is absent (lines 1056-1061).
KeyError(s) == ~(SettingsFields \subseteq DOMAIN s)

\* An UPDATE of the newest row in place of the INSERT.
update_settings_in_place(s) ==
    [settings EXCEPT ![Len(settings)] = SettingsRow(Len(settings), s)]

\* update_settings: one INSERT of the six fields; the new row gets the next id.
update_settings(s) == Append(settings, SettingsRow(Len(settings) + 1, s))

\* any(...) in place of all(...): one required field is enough.
any_required_field(d) == \E field \in SettingsFields : field \in DOMAIN d

\* all(field in data for field in required_fields)  (line 1497).
all_required_fields(d) == \A field \in SettingsFields : field \in DOMAIN d

(***************************************************************************)
(* insert_reading: one INSERT with timestamp = datetime.now().             *)
(***************************************************************************)
\* One row that is overwritten instead of a row per reading.
insert_reading_latest_only(pm25, pm10) ==
    << [pm25 |-> pm25, pm10 |-> pm10, timestamp |-> TimestampText(datetime_now)] >>

insert_reading(pm25, pm10) ==
    Append(sensor_readings,
           [pm25 |-> pm25, pm10 |-> pm10, timestamp |-> TimestampText(datetime_now)])

(***************************************************************************)
(* The sensor thread: sensor_loop, setup_sensor, scan_for_sensor.          *)
(***************************************************************************)
\* scan_for_sensor on one port: the handle is returned iff the first read is a frame.
scan_for_sensor(d) == Len(d) = FRAME_LEN /\ d[1] = HEADER /\ d[2] = COMMAND_ID

\* One pass of setup_sensor's retry loop (lines 936-945).
SetupAttempt ==
    /\ pc = "setup"
    /\ \E d \in (IF sensorPresent THEN Reads ELSE {<<>>}) :
         IF scan_for_sensor(d)
         THEN /\ ser' = "open"
              /\ pc' = "read"
              /\ UNCHANGED <<attempt, exc>>
         ELSE IF attempt < max_retries - 1
              THEN /\ attempt' = attempt + 1
                   /\ UNCHANGED <<pc, ser, exc>>
              ELSE /\ exc' = "NoSensor"
                   /\ pc' = "backoff"
                   /\ UNCHANGED <<attempt, ser>>
    /\ resp' = NoResp
    /\ UNCHANGED <<clockVars, sensor_readings, appendedAt, settings,
                   sensorPresent, data, readExc, pm>>
    /\ UNCHANGED <<busVars, txn, cursor, voiceVars>>

\* ser.read(10) returns bytes only on a handle whose device is still there;
\* on a handle whose device was pulled out it raises SerialException.
LinkAlive == sensorPresent /\ ser = "open"

\* A pass that goes straight to the next read when it decoded nothing.
sensor_loop_pass_no_delay(reads) ==
    /\ pc = "read"
    /\ Len(sensor_readings) < MaxSamples
    /\ \E d \in (IF LinkAlive THEN reads ELSE {<<>>}) :
         /\ data' = d
         /\ readExc' = IF LinkAlive THEN "none" ELSE "SerialException"
         /\ pm' = IF LinkAlive THEN read_sensor_data(d) ELSE None
    /\ IF pm' # None
       THEN \E ok \in BOOLEAN :
              IF ok
              THEN /\ sensor_readings' = insert_reading(pm'.pm25, pm'.pm10)
                   /\ appendedAt' = Append(appendedAt, now)
                   /\ pc' = "sleep"
                   /\ exc' = exc
              ELSE /\ exc' = "StorageError"
                   /\ pc' = "backoff"
                   /\ UNCHANGED <<sensor_readings, appendedAt>>
       ELSE UNCHANGED <<pc, sensor_readings, appendedAt, exc>>
    /\ resp' = NoResp
    /\ UNCHANGED <<clockVars, settings, sensorPresent, attempt, ser>>
    /\ UNCHANGED <<busVars, txn, voiceVars>>

\* One pass of sensor_loop's while body up to the sleep (lines 967-970).
sensor_loop_pass(reads) ==
    /\ pc = "read"
    /\ Len(sensor_readings) < MaxSamples
    /\ \E d \in (IF LinkAlive THEN reads ELSE {<<>>}) :
         /\ data' = d
         /\ readExc' = IF LinkAlive THEN "none" ELSE "SerialException"
         /\ pm' = IF LinkAlive THEN read_sensor_data(d) ELSE None
    /\ IF pm' # None
       THEN \E ok \in BOOLEAN :
              IF ok
              THEN /\ sensor_readings' = insert_reading(pm'.pm25, pm'.pm10)
                   /\ appendedAt' = Append(appendedAt, now)
                   /\ pc' = "sleep"
                   /\ exc' = exc
              ELSE /\ exc' = "StorageError"
                   /\ pc' = "backoff"
                   /\ UNCHANGED <<sensor_readings, appendedAt>>
       ELSE /\ pc' = "sleep"
            /\ UNCHANGED <<sensor_readings, appendedAt, exc>>
    /\ resp' = NoResp
    /\ UNCHANGED <<clockVars, settings, sensorPresent, attempt, ser>>
    /\ UNCHANGED <<busVars, txn, voiceVars>>

\* A pass whose read may return anything the link can deliver.
ReadAndStore ==
    /\ sensor_loop_pass(Reads)
    /\ UNCHANGED cursor

\* time.sleep(SENSOR_READ_INTERVAL), line 971.
Sleep ==
    /\ pc = "sleep"
    /\ pc' = "read"
    /\ resp' = NoResp
    /\ UNCHANGED <<clockVars, sensor_readings, appendedAt, settings,
                   sensorPresent, attempt, ser, data, readExc, pm, exc>>
    /\ UNCHANGED <<busVars, txn, cursor, voiceVars>>

\* The except branch of sensor_loop: log, sleep 5 s, and the function returns.
SensorLoopReturn ==
    /\ pc = "backoff"
    /\ pc' = "returned"
    /\ resp' = NoResp
    /\ UNCHANGED <<clockVars, sensor_readings, appendedAt, settings,
                   sensorPresent, attempt, ser, data, readExc, pm, exc>>
    /\ UNCHANGED <<busVars, txn, cursor, voiceVars>>

(***************************************************************************)
(* The environment of the link: the sensor is plugged in or pulled out.    *)
(***************************************************************************)
Plug ==
    /\ ~sensorPresent
    /\ sensorPresent' = TRUE
    /\ resp' = NoResp
    /\ UNCHANGED <<clockVars, sensor_readings, appendedAt, settings, loopVars>>
    /\ UNCHANGED <<busVars, txn, cursor, voiceVars>>

Unplug ==
    /\ sensorPresent
    /\ sensorPresent' = FALSE
    /\ ser' = IF ser = "open" THEN "stale" ELSE ser
    /\ resp' = NoResp
    /\ UNCHANGED <<clockVars, sensor_readings, appendedAt, settings,
                   pc, attempt, data, readExc, pm, exc>>
    /\ UNCHANGED <<busVars, txn, cursor, voiceVars>>

(***************************************************************************)
(* POST /api/settings (api_settings, lines 1486-1505).                     *)
(***************************************************************************)
api_settings_post ==
    /\ pc \notin {"boot", "aborted"}
    /\ \E d \in SettingsInputs :
         IF DOMAIN d = {}
         THEN /\ resp' = [kind |-> "settings_post", data |-> d, status |-> 400]
              /\ UNCHANGED settings
         ELSE IF ~all_required_fields(d)
         THEN /\ resp' = [kind |-> "settings_post", data |-> d, status |-> 400]
              /\ UNCHANGED settings
         ELSE \E ok \in BOOLEAN :
                /\ Len(settings) < MaxSettings
                /\ IF ok /\ ~KeyError(d)
                   THEN /\ settings' = update_settings(d)
                        /\ resp' = [kind |-> "settings_post", data |-> d, status |-> 200]
                   ELSE /\ resp' = [kind |-> "settings_post", data |-> d, status |-> 500]
                        /\ UNCHANGED settings
    /\ UNCHANGED <<clockVars, sensor_readings, appendedAt, sensorPresent, loopVars>>
    /\ UNCHANGED <<busVars, txn, cursor, voiceVars>>

(***************************************************************************)
(* The acquisition specification: the sensor thread, its link, and the     *)
(* settings a user may change while it runs.                               *)
(***************************************************************************)
Init ==
    /\ now = StartTime
    /\ tzOffset = 0
    /\ ticks = 0
    /\ sensor_readings = <<>>
    /\ appendedAt = <<>>
    /\ settings = <<DefaultRow>>
    /\ sensorPresent \in BOOLEAN
    /\ pc = "setup"
    /\ attempt = 0
    /\ ser = "none"
    /\ data = <<>>
    /\ readExc = "none"
    /\ pm = None
    /\ exc = "none"
    /\ resp = NoResp
    /\ InitBus
    /\ txn = None
    /\ cursor = 0
    /\ InitVoice

Next ==
    \/ SetupAttempt
    \/ ReadAndStore
    \/ Sleep
    \/ SensorLoopReturn
    \/ Plug
    \/ Unplug
    \/ api_settings_post

Spec == Init /\ [][Next]_vars

(***************************************************************************)
(* The query layer: query_history, query_current, get_highest_reading.     *)
(***************************************************************************)
Timeframes == { "24h", "7d", "30d", "1y" }

\* A fourth branch that gives the name '1y' a longer window of its own.
WindowDays_long_1y(tf) ==
    IF tf = "24h" THEN 1 ELSE IF tf = "7d" THEN 7 ELSE IF tf = "30d" THEN 30
    ELSE IF tf = "1y" THEN 30 ELSE 1

\* The named window of query_history, in days; any other name is one day.
WindowDays(tf) ==
    IF tf = "24h" THEN 1 ELSE IF tf = "7d" THEN 7 ELSE IF tf = "30d" THEN 30 ELSE 1

WindowDays_swapped(tf) ==
    IF tf = "24h" THEN 7 ELSE IF tf = "7d" THEN 1 ELSE IF tf = "30d" THEN 30 ELSE 1

\* SQLite's datetime('now', '-N days'): the UTC clock, as text.
time_filter_swapped(tf) == TimestampText(now - WindowDays_swapped(tf) * Day)

time_filter(tf) == TimestampText(now - WindowDays(tf) * Day)

\* An ordering that puts the newer of two rows with equal timestamps first.
RowBefore_newest_tie_first(i, j) ==
    \/ TextLess(sensor_readings[i].timestamp, sensor_readings[j].timestamp)
    \/ (sensor_readings[i].timestamp = sensor_readings[j].timestamp /\ i > j)

\* ORDER BY timestamp ASC over the rowids in S (ties in rowid order).
RowBefore(i, j) ==
    \/ TextLess(sensor_readings[i].timestamp, sensor_readings[j].timestamp)
    \/ (sensor_readings[i].timestamp = sensor_readings[j].timestamp /\ i < j)

RECURSIVE OrderByTimestamp(_)
OrderByTimestamp(S) ==
    IF S = {} THEN <<>>
    ELSE LET m == CHOOSE i \in S : \A j \in S \ {i} : RowBefore(i, j)
         IN  <<m>> \o OrderByTimestamp(S \ {m})

\* The three index-aligned lists query_history returns for the rowids in ids.
HistoryOf(ids) ==
    [pm25_values |-> [k \in 1..Len(ids) |-> sensor_readings[ids[k]].pm25],
     pm10_values |-> [k \in 1..Len(ids) |-> sensor_readings[ids[k]].pm10],
     timestamps  |-> [k \in 1..Len(ids) |-> sensor_readings[ids[k]].timestamp]]

\* WHERE timestamp > <time_filter>.
WhereNewer(bound) ==
    { i \in 1..Len(sensor_readings) : TextLess(bound, sensor_readings[i].timestamp) }

query_history(tf) == HistoryOf(OrderByTimestamp(WhereNewer(time_filter(tf))))

\* query_current: ORDER BY timestamp DESC LIMIT 1 (any row of the greatest timestamp).
query_current_oldest ==
    { sensor_readings[i] : i \in { i \in 1..Len(sensor_readings) :
        \A j \in 1..Len(sensor_readings) :
          ~TextLess(sensor_readings[j].timestamp, sensor_readings[i].timestamp) } }

query_current ==
    { sensor_readings[i] : i \in { i \in 1..Len(sensor_readings) :
        \A j \in 1..Len(sensor_readings) :
          ~TextLess(sensor_readings[i].timestamp, sensor_readings[j].timestamp) } }

\* Python's max(list) and list.index(value).
ListMax(l) == CHOOSE v \in { l[k] : k \in 1..Len(l) } : \A k \in 1..Len(l) : l[k] <= v
ListIndex(l, v) == CHOOSE k \in 1..Len(l) : l[k] = v /\ \A j \in 1..(k - 1) : l[j] # v

\* get_highest_reading's result for a history that was read.
get_highest_reading_one_index(history) ==
    IF Len(history.pm25_values) > 0
    THEN LET max_pm25 == ListMax(history.pm25_values)
             max_pm10 == ListMax(history.pm10_values)
             max_pm25_idx == ListIndex(history.pm25_values, max_pm25)
         IN  [pm25 |-> [value |-> max_pm25, timestamp |-> history.timestamps[max_pm25_idx]],
              pm10 |-> [value |-> max_pm10, timestamp |-> history.timestamps[max_pm25_idx]]]
    ELSE None

get_highest_reading(history) ==
    IF Len(history.pm25_values) > 0
    THEN LET max_pm25 == ListMax(history.pm25_values)
             max_pm10 == ListMax(history.pm10_values)
             max_pm25_idx == ListIndex(history.pm25_values, max_pm25)
             max_pm10_idx == ListIndex(history.pm10_values, max_pm10)
         IN  [pm25 |-> [value |-> max_pm25, timestamp |-> history.timestamps[max_pm25_idx]],
              pm10 |-> [value |-> max_pm10, timestamp |-> history.timestamps[max_pm10_idx]]]
    ELSE None

(***************************************************************************)
(* The store under its callers: appends, the passing of time, and the      *)
(* read-only handlers.  A storage failure is sqlite3 raising in the call.  *)
(***************************************************************************)
\* (pm25, pm10) pairs handed to insert_reading, in tenths.
PmInputs == { <<300, 80>>, <<300, 592>>, <<100, 592>> }
TZOffsets == { 0, 1 }
Delays == { Day, 7 * Day, 30 * Day }

\* insert_reading(pm25, pm10) as its caller runs it.
InsertReading ==
    /\ Len(sensor_readings) < MaxSamples
    /\ \E p \in PmInputs :
         /\ sensor_readings' = insert_reading(p[1], p[2])
         /\ appendedAt' = Append(appendedAt, now)
    /\ resp' = NoResp
    /\ UNCHANGED <<clockVars, settings, sensorPresent, loopVars>>
    /\ UNCHANGED <<busVars, txn, cursor, voiceVars>>

\* Time passes.
Tick ==
    /\ ticks < MaxTicks
    /\ \E d \in Delays : now' = now + d
    /\ ticks' = ticks + 1
    /\ resp' = NoResp
    /\ UNCHANGED <<tzOffset, sensor_readings, appendedAt, settings, sensorPresent, loopVars>>
    /\ UNCHANGED <<busVars, txn, cursor, voiceVars>>

\* The local time zone's offset changes (daylight saving begins or ends).
DstChange ==
    /\ ticks < MaxTicks
    /\ \E o \in TZOffsets \ {tzOffset} : tzOffset' = o
    /\ ticks' = ticks + 1
    /\ resp' = NoResp
    /\ UNCHANGED <<now, sensor_readings, appendedAt, settings, sensorPresent, loopVars>>
    /\ UNCHANGED <<busVars, txn, cursor, voiceVars>>

\* GET /api/current (api_current over query_current).
api_current ==
    /\ \E ok \in BOOLEAN :
         IF ~ok
         THEN resp' = [kind |-> "current", status |-> 500]
         ELSE IF query_current = {}
              THEN resp' = [kind |-> "current", status |-> 404]
              ELSE \E r \in query_current :
                     resp' = [kind |-> "current", status |-> 200, body |-> r]
    /\ UNCHANGED <<clockVars, sensor_readings, appendedAt, settings, sensorPresent, loopVars>>
    /\ UNCHANGED <<busVars, txn, cursor, voiceVars>>

\* GET /api/history?timeframe=tf (api_history over query_history).
api_history ==
    /\ \E tf \in Timeframes, ok \in BOOLEAN :
         IF ~ok
         THEN resp' = [kind |-> "history", tf |-> tf, status |-> 500]
         ELSE resp' = [kind |-> "history", tf |-> tf, status |-> 200,
                       body |-> query_history(tf)]
    /\ UNCHANGED <<clockVars, sensor_readings, appendedAt, settings, sensorPresent, loopVars>>
    /\ UNCHANGED <<busVars, txn, cursor, voiceVars>>

\* A call of get_highest_reading(tf): the except branch logs and returns None.
GetHighest ==
    /\ \E tf \in Timeframes, ok \in BOOLEAN :
         IF ~ok
         THEN resp' = [kind |-> "highest", tf |-> tf, result |-> None,
                       logged |-> "Error getting highest reading"]
         ELSE resp' = [kind |-> "highest", tf |-> tf,
                       result |-> get_highest_reading(query_history(tf)),
                       logged |-> "none"]
    /\ UNCHANGED <<clockVars, sensor_readings, appendedAt, settings, sensorPresent, loopVars>>
    /\ UNCHANGED <<busVars, txn, cursor, voiceVars>>

InitStore ==
    /\ now = StartTime
    /\ tzOffset \in TZOffsets
    /\ ticks = 0
    /\ sensor_readings = <<>>
    /\ appendedAt = <<>>
    /\ settings = <<DefaultRow>>
    /\ sensorPresent = FALSE
    /\ pc = "setup"
    /\ attempt = 0
    /\ ser = "none"
    /\ data = <<>>
    /\ readExc = "none"
    /\ pm = None
    /\ exc = "none"
    /\ resp = NoResp
    /\ InitBus
    /\ txn = None
    /\ cursor = 0
    /\ InitVoice

NextStore ==
    \/ InsertReading
    \/ Tick
    \/ DstChange
    \/ api_current
    \/ api_history
    \/ GetHighest

SpecStore == InitStore /\ [][NextStore]_vars

(***************************************************************************)
(* find_last_spike (lines 871-896).  A moving average is kept as the sum   *)
(* of its window (the average times `window`), and a threshold factor in   *)
(* tenths, so  avg[i] > avg[i-1] * factor  is                              *)
(* sum[i] * Tenths > sum[i-1] * factor,  in exact arithmetic (the source's  *)
(* floats can differ from it only where the two sides are equal).          *)
(***************************************************************************)
window == 5

RECURSIVE SumSeq(_)
SumSeq(l) == IF l = <<>> THEN 0 ELSE Head(l) + SumSeq(Tail(l))

\* pm25_avg: one entry per i in range(len(values) - window + 1).
MovingAverages(values) ==
    [k \in 1..(IF Len(values) >= window THEN Len(values) - window + 1 ELSE 0) |->
        SumSeq(SubSeq(values, k, k + window - 1))]

\* for i in range(len(pm25_avg)-1, 0, -1): the scan from the newest average back
\* to the second one, k being i + 1.
RECURSIVE ScanBack_ge(_, _, _, _)
ScanBack_ge(history, pm25_avg, k, factor) ==
    IF k < 2 THEN None
    ELSE IF pm25_avg[k] * Tenths >= pm25_avg[k - 1] * factor
         THEN [timestamp |-> history.timestamps[k],
               value |-> history.pm25_values[k],
               baseline |-> pm25_avg[k - 1]]
         ELSE ScanBack_ge(history, pm25_avg, k - 1, factor)

RECURSIVE ScanBack_peak(_, _, _, _)
ScanBack_peak(history, pm25_avg, k, factor) ==
    IF k < 2 THEN None
    ELSE IF pm25_avg[k] * Tenths > pm25_avg[k - 1] * factor
         THEN [timestamp |-> history.timestamps[k + window - 1],
               value |-> history.pm25_values[k + window - 1],
               baseline |-> pm25_avg[k - 1]]
         ELSE ScanBack_peak(history, pm25_avg, k - 1, factor)

RECURSIVE ScanBack(_, _, _, _)
ScanBack(history, pm25_avg, k, factor) ==
    IF k < 2 THEN None
    ELSE IF pm25_avg[k] * Tenths > pm25_avg[k - 1] * factor
         THEN [timestamp |-> history.timestamps[k],
               value |-> history.pm25_values[k],
               baseline |-> pm25_avg[k - 1]]
         ELSE ScanBack(history, pm25_avg, k - 1, factor)

find_last_spike_ge(history, factor) ==
    IF Len(history.pm25_values) = 0 THEN None
    ELSE LET pm25_avg == MovingAverages(history.pm25_values)
         IN  ScanBack_ge(history, pm25_avg, Len(pm25_avg), factor)

find_last_spike_peak(history, factor) ==
    IF Len(history.pm25_values) = 0 THEN None
    ELSE LET pm25_avg == MovingAverages(history.pm25_values)
         IN  ScanBack_peak(history, pm25_avg, Len(pm25_avg), factor)

\* find_last_spike's result for the history that query_history('24h') gave.
find_last_spike(history, factor) ==
    IF Len(history.pm25_values) = 0 THEN None
    ELSE LET pm25_avg == MovingAverages(history.pm25_values)
         IN  ScanBack(history, pm25_avg, Len(pm25_avg), factor)

(***************************************************************************)
(* The analytics over a store that already holds samples.                  *)
(***************************************************************************)
MaxHistory == 7
SpikeValues == { 100, 500, 2500 }
ThresholdFactors == { 15, 18 }
OldRows == { 0, 2, 6 }

\* A call of find_last_spike(factor): the except branch logs and returns None.
FindLastSpike ==
    /\ \E factor \in ThresholdFactors, ok \in BOOLEAN :
         IF ~ok
         THEN resp' = [kind |-> "spike", factor |-> factor, result |-> None,
                       logged |-> "Error finding last spike"]
         ELSE resp' = [kind |-> "spike", factor |-> factor,
                       result |-> find_last_spike(query_history("24h"), factor),
                       logged |-> "none"]
    /\ UNCHANGED <<clockVars, sensor_readings, appendedAt, settings, sensorPresent, loopVars>>
    /\ UNCHANGED <<busVars, txn, cursor, voiceVars>>

\* The instant of row k of n, the first `old` of them two days back and the
\* rest one per hour up to now.
StampOf(k, n, old) == IF k <= old THEN StartTime - 2 * Day + k ELSE StartTime - (n - k)

InitSpike ==
    /\ now = StartTime
    /\ tzOffset = 0
    /\ ticks = 0
    /\ \E n \in 0..MaxHistory : \E old \in { o \in OldRows : o <= n } :
         \E values \in [1..n -> SpikeValues] :
           /\ sensor_readings =
                [k \in 1..n |-> [pm25 |-> values[k], pm10 |-> 80,
                                 timestamp |-> TimestampText(StampOf(k, n, old))]]
           /\ appendedAt = [k \in 1..n |-> StampOf(k, n, old)]
    /\ settings = <<DefaultRow>>
    /\ sensorPresent = FALSE
    /\ pc = "setup"
    /\ attempt = 0
    /\ ser = "none"
    /\ data = <<>>
    /\ readExc = "none"
    /\ pm = None
    /\ exc = "none"
    /\ resp = NoResp
    /\ InitBus
    /\ txn = None
    /\ cursor = 0
    /\ InitVoice

NextSpike ==
    \/ FindLastSpike
    \/ GetHighest

SpecSpike == InitSpike /\ [][NextSpike]_vars

(***************************************************************************)
(* The settings store from process start: main runs init_db before it      *)
(* starts any thread or the web server, so no handler runs before it has   *)
(* returned; if it raises, main re-raises and the process ends.            *)
(***************************************************************************)
\* init_db without the INSERT of the defaults.
init_db_always_defaults ==
    /\ pc = "boot"
    /\ \E ok \in BOOLEAN :
         IF ok
         THEN /\ settings' = IF Len(settings) < MaxSettings
                             THEN Append(settings, SettingsRow(Len(settings) + 1, DefaultSettings))
                             ELSE settings
              /\ pc' = "setup"
              /\ UNCHANGED exc
         ELSE /\ pc' = "aborted"
              /\ exc' = "StorageError"
              /\ UNCHANGED settings
    /\ resp' = NoResp
    /\ UNCHANGED <<clockVars, sensor_readings, appendedAt, sensorPresent,
                   attempt, ser, data, readExc, pm>>
    /\ UNCHANGED <<busVars, txn, cursor, voiceVars>>

init_db_no_defaults ==
    /\ pc = "boot"
    /\ \E ok \in BOOLEAN :
         IF ok
         THEN /\ pc' = "setup"
              /\ UNCHANGED exc
         ELSE /\ pc' = "aborted"
              /\ exc' = "StorageError"
    /\ resp' = NoResp
    /\ UNCHANGED <<clockVars, sensor_readings, appendedAt, settings, sensorPresent,
                   attempt, ser, data, readExc, pm>>
    /\ UNCHANGED <<busVars, txn, cursor, voiceVars>>

\* init_db (lines 747-792): the defaults are inserted iff COUNT(*) = 0.
init_db ==
    /\ pc = "boot"
    /\ \E ok \in BOOLEAN :
         IF ok
         THEN /\ settings' = IF Len(settings) = 0 THEN <<DefaultRow>> ELSE settings
              /\ pc' = "setup"
              /\ UNCHANGED exc
         ELSE /\ pc' = "aborted"
              /\ exc' = "StorageError"
              /\ UNCHANGED settings
    /\ resp' = NoResp
    /\ UNCHANGED <<clockVars, sensor_readings, appendedAt, sensorPresent,
                   attempt, ser, data, readExc, pm>>
    /\ UNCHANGED <<busVars, txn, cursor, voiceVars>>

\* GET /api/settings (api_settings, lines 1480-1484 and 1503-1505).
api_settings_get ==
    /\ pc \notin {"boot", "aborted"}
    /\ \E ok \in BOOLEAN :
         resp' = IF ~ok
                 THEN [kind |-> "settings_get", status |-> 500, body |-> None]
                 ELSE IF get_settings # None
                 THEN [kind |-> "settings_get", status |-> 200, body |-> get_settings]
                 ELSE [kind |-> "settings_get", status |-> 404, body |-> None]
    /\ UNCHANGED <<clockVars, sensor_readings, appendedAt, settings, sensorPresent,
                   loopVars>>
    /\ UNCHANGED <<busVars, txn, cursor, voiceVars>>

\* The table as a previous run of the program left it: absent (first boot),
\* or the defaults followed by one update.
StoredBefore ==
    { <<>>,
      <<DefaultRow,
        SettingsRow(2, [pm25_warning |-> 100, pm25_critical |-> 300,
                        pm10_warning |-> 500, pm10_critical |-> 1500,
                        pm25_calibration |-> 20, pm10_calibration |-> 5])>> }

InitSettings ==
    /\ now = StartTime
    /\ tzOffset = 0
    /\ ticks = 0
    /\ sensor_readings = <<>>
    /\ appendedAt = <<>>
    /\ settings \in StoredBefore
    /\ sensorPresent = FALSE
    /\ pc = "boot"
    /\ attempt = 0
    /\ ser = "none"
    /\ data = <<>>
    /\ readExc = "none"
    /\ pm = None
    /\ exc = "none"
    /\ resp = NoResp
    /\ InitBus
    /\ txn = None
    /\ cursor = 0
    /\ InitVoice

NextSettings ==
    \/ init_db
    \/ api_settings_get
    \/ api_settings_post

SpecSettings == InitSettings /\ [][NextSettings]_vars

\* ---------------------------------------------------------------------------
\* Restarts.  The database file outlives the process: a run starts on whatever
\* the runs before it stored, and main calls init_db first (line 1546).
\* ---------------------------------------------------------------------------
\* The samples a previous run left: none, or one from the day before.
SamplesBefore ==
    { <<>>,
      <<[pm25 |-> 300, pm10 |-> 592, timestamp |-> TimestampText(StartTime - Day)]>> }

InitRestart ==
    /\ now = StartTime
    /\ tzOffset = 0
    /\ ticks = 0
    /\ sensor_readings \in SamplesBefore
    /\ appendedAt = [i \in 1..Len(sensor_readings) |-> StartTime - Day]
    /\ settings \in StoredBefore
    /\ sensorPresent = FALSE
    /\ pc = "boot"
    /\ attempt = 0
    /\ ser = "none"
    /\ data = <<>>
    /\ readExc = "none"
    /\ pm = None
    /\ exc = "none"
    /\ resp = NoResp
    /\ InitBus
    /\ txn = None
    /\ cursor = 0
    /\ InitVoice

\* The process ends (init_db raised, or it is stopped before its threads
\* have done anything) and the program is started again on the same file.
Restart ==
    /\ pc \in {"setup", "aborted"}
    /\ pc' = "boot"
    /\ exc' = "none"
    /\ resp' = NoResp
    /\ UNCHANGED <<clockVars, sensor_readings, appendedAt, settings, sensorPresent,
                   attempt, ser, data, readExc, pm>>
    /\ UNCHANGED <<busVars, txn, cursor, voiceVars>>

NextRestart ==
    \/ init_db
    \/ api_settings_get
    \/ api_settings_post
    \/ Restart

SpecRestart == InitRestart /\ [][NextRestart]_vars

(***************************************************************************)
(* A settings read racing an update.  update_settings runs in the request  *)
(* thread of a POST and get_settings in that of a GET, each on its own     *)
(* connection.  The INSERT opens a transaction (cursor.execute, line 1050) *)
(* and its row is visible to other connections only from conn.commit()     *)
(* (line 1063); the reader's single SELECT sees committed rows.            *)
(***************************************************************************)
\* api_settings POST up to and including cursor.execute(INSERT ...).
update_settings_execute ==
    /\ pc \notin {"boot", "aborted"}
    /\ txn = None
    /\ cursor = 0
    /\ InitVoice
    /\ Len(settings) < MaxSettings
    /\ \E d \in { d \in SettingsInputs : DOMAIN d # {} /\ all_required_fields(d) } :
         txn' = d
    /\ resp' = NoResp
    /\ UNCHANGED <<clockVars, sensor_readings, appendedAt, settings, sensorPresent,
                   loopVars, busVars, cursor, voiceVars>>

\* conn.commit() and the handler's answer; a failed commit leaves no row.
update_settings_commit ==
    /\ txn # None
    /\ \E ok \in BOOLEAN :
         IF ok
         THEN /\ settings' = update_settings(txn)
              /\ resp' = [kind |-> "settings_post", data |-> txn, status |-> 200]
         ELSE /\ resp' = [kind |-> "settings_post", data |-> txn, status |-> 500]
              /\ UNCHANGED settings
    /\ txn' = None
    /\ UNCHANGED <<clockVars, sensor_readings, appendedAt, sensorPresent, loopVars, busVars,
                   cursor, voiceVars>>

NextRace ==
    \/ update_settings_execute
    \/ update_settings_commit
    \/ api_settings_get

SpecRace == Init /\ [][NextRace]_vars

(***************************************************************************)
(* The WebSocket bus: ws_handler runs in one request thread per session,   *)
(* broadcast_to_clients in the voice listener's thread, and both work on   *)
(* the plain set ws_clients with no lock.  One step is one operation on    *)
(* the set (add, remove, the iterator's next), which the interpreter       *)
(* executes without interruption; threads interleave between steps,        *)
(* because send and receive block on the socket.                           *)
(***************************************************************************)
coreVars == <<clockVars, sensor_readings, appendedAt, settings, sensorPresent, loopVars,
              txn, cursor>>

\* A handler that first sends the new session every earlier broadcast.
ws_handler_add_replay(c) ==
    /\ conn[c] = "none"
    /\ conn' = [conn EXCEPT ![c] = "open"]
    /\ ws_clients' = ws_clients \cup {c}
    /\ joinedAt' = [joinedAt EXCEPT ![c] = pubCalls]
    /\ delivered' = [delivered EXCEPT ![c] = 1..pubCalls]
    /\ resp' = NoResp
    /\ UNCHANGED <<coreVars, voiceVars, ws_raised, pubPc, iterStart, visited, dead_clients,
                   pending, pubErr, pubCalls>>

\* ws_handler up to its first receive (lines 695-697): ws_clients.add(ws).
ws_handler_add(c) ==
    /\ conn[c] = "none"
    /\ conn' = [conn EXCEPT ![c] = "open"]
    /\ ws_clients' = ws_clients \cup {c}
    /\ joinedAt' = [joinedAt EXCEPT ![c] = pubCalls]
    /\ resp' = NoResp
    /\ UNCHANGED <<coreVars, voiceVars, ws_raised, pubPc, iterStart, visited, dead_clients,
                   pending, pubErr, pubCalls, delivered>>

\* The peer goes away: from now on send and receive on this socket raise.
SocketBreaks(c) ==
    /\ conn[c] = "open"
    /\ conn' = [conn EXCEPT ![c] = "broken"]
    /\ resp' = NoResp
    /\ UNCHANGED <<coreVars, voiceVars, ws_clients, ws_raised, pubPc, iterStart, visited,
                   dead_clients, pending, pubErr, pubCalls, delivered, joinedAt>>

\* A handler that ends on the failed receive without the remove.
ws_handler_except_leak(c) ==
    /\ conn[c] = "broken"
    /\ conn' = [conn EXCEPT ![c] = "closed"]
    /\ resp' = NoResp
    /\ UNCHANGED <<coreVars, voiceVars, ws_clients, ws_raised, pubPc, iterStart, visited,
                   dead_clients, pending, pubErr, pubCalls, delivered, joinedAt>>

\* ws.receive() raises and the bare except runs ws_clients.remove(ws)
\* (lines 701-704); set.remove of an absent element raises KeyError, which
\* nothing in ws_handler catches.
ws_handler_except(c) ==
    /\ conn[c] = "broken"
    /\ conn' = [conn EXCEPT ![c] = "closed"]
    /\ IF c \in ws_clients
       THEN /\ ws_clients' = ws_clients \ {c}
            /\ UNCHANGED ws_raised
       ELSE /\ ws_raised' = ws_raised \cup {c}
            /\ UNCHANGED ws_clients
    /\ resp' = NoResp
    /\ UNCHANGED <<coreVars, voiceVars, pubPc, iterStart, visited, dead_clients, pending,
                   pubErr, pubCalls, delivered, joinedAt>>

\* broadcast_to_clients up to the first next of its for loop (lines 708-714):
\* the iterator records the size of the set.
broadcast_to_clients_call ==
    /\ pubPc = "idle"
    /\ pubPc' = "iter"
    /\ iterStart' = ws_clients
    /\ visited' = {}
    /\ dead_clients' = {}
    /\ pending' = {}
    /\ pubErr' = "none"
    /\ resp' = NoResp
    /\ UNCHANGED <<coreVars, ws_clients, conn, ws_raised, pubCalls, delivered, joinedAt>>

\* A call of broadcast_to_clients, up to the bound on calls.
BroadcastStart ==
    /\ pubCalls < MaxPublishes
    /\ broadcast_to_clients_call
    /\ UNCHANGED voiceVars

\* One next of the set iterator and the loop body (lines 714-718).  next
\* raises RuntimeError when the set's size is not the recorded one; else it
\* yields an element it has not passed, or stops: an element added since the
\* start may lie before or after the iterator's position.  send raises on a
\* socket that is not open, and the except puts the session in dead_clients.
BroadcastNext ==
    /\ pubPc = "iter"
    /\ \/ /\ Cardinality(ws_clients) # Cardinality(iterStart)
          /\ pubErr' = "RuntimeError"
          /\ pubPc' = "idle"
          /\ pubCalls' = pubCalls + 1
          /\ UNCHANGED <<visited, dead_clients, pending, delivered>>
       \/ /\ Cardinality(ws_clients) = Cardinality(iterStart)
          /\ \E client \in ws_clients \ visited :
               /\ visited' = visited \cup {client}
               /\ dead_clients' = IF conn[client] = "open" THEN dead_clients
                                  ELSE dead_clients \cup {client}
               /\ delivered' = IF conn[client] = "open"
                               THEN [delivered EXCEPT ![client] = @ \cup {pubCalls + 1}]
                               ELSE delivered
          /\ UNCHANGED <<pubPc, pending, pubErr, pubCalls>>
       \/ /\ Cardinality(ws_clients) = Cardinality(iterStart)
          /\ (ws_clients \ visited) \cap iterStart = {}
          /\ pubPc' = "remove"
          /\ pending' = dead_clients
          /\ UNCHANGED <<visited, dead_clients, pubErr, pubCalls, delivered>>
    /\ resp' = NoResp
    /\ UNCHANGED <<coreVars, voiceVars, ws_clients, conn, ws_raised, iterStart, joinedAt>>

\* The second loop (lines 720-722): ws_clients.remove(client) for each dead
\* client, KeyError if its handler has removed it in the meantime.
BroadcastRemove ==
    /\ pubPc = "remove"
    /\ IF pending = {}
       THEN /\ pubPc' = "idle"
            /\ pubCalls' = pubCalls + 1
            /\ UNCHANGED <<ws_clients, pending, pubErr>>
       ELSE \E client \in pending :
              IF client \in ws_clients
              THEN /\ ws_clients' = ws_clients \ {client}
                   /\ pending' = pending \ {client}
                   /\ UNCHANGED <<pubPc, pubErr, pubCalls>>
              ELSE /\ pubErr' = "KeyError"
                   /\ pubPc' = "idle"
                   /\ pubCalls' = pubCalls + 1
                   /\ UNCHANGED <<ws_clients, pending>>
    /\ resp' = NoResp
    /\ UNCHANGED <<coreVars, voiceVars, conn, ws_raised, iterStart, visited, dead_clients,
                   delivered, joinedAt>>

NextBus ==
    \/ \E c \in Clients : ws_handler_add(c)
    \/ \E c \in Clients : SocketBreaks(c)
    \/ \E c \in Clients : ws_handler_except(c)
    \/ BroadcastStart
    \/ BroadcastNext
    \/ BroadcastRemove

SpecBus == Init /\ [][NextBus]_vars

(***************************************************************************)
(* process_voice_command (lines 1136-1185): the phrase groups are tried in *)
(* the order current, highest, spike; query_current re-raises a storage    *)
(* failure, which the handler's except turns into the error answer, while  *)
(* get_highest_reading and find_last_spike return None on one.             *)
(***************************************************************************)
DefaultThresholdFactor == 15

\* Which phrase groups the recognised text contains.
VoiceQueries ==
    { [current |-> TRUE,  highest |-> FALSE, spike |-> TRUE],
      [current |-> FALSE, highest |-> TRUE,  spike |-> FALSE],
      [current |-> FALSE, highest |-> FALSE, spike |-> TRUE],
      [current |-> FALSE, highest |-> FALSE, spike |-> FALSE] }

VoiceAnswer(query, ok, current_data) ==
    IF query.current
    THEN IF ~ok THEN [kind |-> "voice", query |-> query, branch |-> "error", data |-> None]
         ELSE [kind |-> "voice", query |-> query, branch |-> "current", data |-> current_data]
    ELSE IF query.highest
    THEN [kind |-> "voice", query |-> query, branch |-> "highest",
          data |-> IF ok THEN get_highest_reading(query_history("24h")) ELSE None]
    ELSE IF query.spike
    THEN [kind |-> "voice", query |-> query, branch |-> "spike",
          data |-> IF ok THEN find_last_spike(query_history("24h"), DefaultThresholdFactor)
                   ELSE None]
    ELSE [kind |-> "voice", query |-> query, branch |-> "unknown", data |-> None]

\* A handler that also stores the reading it has just reported.
process_voice_command_storing ==
    /\ \E query \in VoiceQueries, ok \in BOOLEAN :
         \E current_data \in (IF query_current = {} THEN {None} ELSE query_current) :
            /\ resp' = VoiceAnswer(query, ok, current_data)
            /\ IF query.current /\ ok /\ current_data # None
               THEN /\ sensor_readings' = insert_reading(current_data.pm25, current_data.pm10)
                    /\ appendedAt' = Append(appendedAt, now)
               ELSE UNCHANGED <<sensor_readings, appendedAt>>
    /\ UNCHANGED <<clockVars, settings, sensorPresent, loopVars>>
    /\ UNCHANGED <<busVars, txn, cursor, voiceVars>>

process_voice_command ==
    /\ \E query \in VoiceQueries, ok \in BOOLEAN :
         \E current_data \in (IF query_current = {} THEN {None} ELSE query_current) :
            resp' = VoiceAnswer(query, ok, current_data)
    /\ UNCHANGED <<clockVars, sensor_readings, appendedAt, settings, sensorPresent, loopVars>>
    /\ UNCHANGED <<busVars, txn, cursor, voiceVars>>

(***************************************************************************)
(* Everything that touches the database or the bus while the sensor loop   *)
(* is reading: the loop itself, the history and settings routes, the voice *)
(* command handler and the broadcasts.  The settings table is as earlier   *)
(* updates left it, with room for one more row.                            *)
(***************************************************************************)
RECURSIVE PriorSettings(_)
PriorSettings(n) ==
    IF n <= 1 THEN <<DefaultRow>>
    ELSE Append(PriorSettings(n - 1), SettingsRow(n, DefaultSettings))

InitFrame ==
    /\ now = StartTime
    /\ tzOffset = 0
    /\ ticks = 0
    /\ sensor_readings = <<>>
    /\ appendedAt = <<>>
    /\ settings = PriorSettings(MaxSettings - 1)
    /\ sensorPresent = TRUE
    /\ pc = "read"
    /\ attempt = 0
    /\ ser = "open"
    /\ data = <<>>
    /\ readExc = "none"
    /\ pm = None
    /\ exc = "none"
    /\ resp = NoResp
    /\ InitBus
    /\ txn = None
    /\ cursor = 0
    /\ InitVoice

NextFrame ==
    \/ ReadAndStore
    \/ Sleep
    \/ SensorLoopReturn
    \/ process_voice_command
    \/ api_history
    \/ api_settings_get
    \/ api_settings_post
    \/ BroadcastStart
    \/ BroadcastNext
    \/ BroadcastRemove

SpecFrame == InitFrame /\ [][NextFrame]_vars

\* ---------------------------------------------------------------------------
\* The sensor's byte stream.  The sensor sends one valid 10-byte frame after
\* another and the input buffer always holds at least ten unread bytes (the
\* sensor reports every second, the loop reads every SENSOR_READ_INTERVAL = 5
\* seconds), so ser.read(10) on line 951 returns the next ten bytes and
\* removes them from the buffer, whatever the header check decides afterwards.
\* ---------------------------------------------------------------------------
MaxFrames == 6
MaxLost == 2

StreamPayloads == << <<44, 1, 80, 2>>, <<100, 0, 80, 0>> >>

\* Byte p (counted from 1) of what the sensor sends.
StreamByte(p) ==
    LET n == (p - 1) \div FRAME_LEN
    IN  Frame(HEADER, COMMAND_ID, StreamPayloads[(n % 2) + 1])[((p - 1) % FRAME_LEN) + 1]

\* What ser.read(10) returns: the ten bytes after the cursor.
StreamWindow == [i \in 1..FRAME_LEN |-> StreamByte(cursor + i)]

\* One pass of the loop reading from the stream: the read consumes ten bytes.
StreamRead ==
    /\ LinkAlive
    /\ cursor + FRAME_LEN <= MaxFrames * FRAME_LEN
    /\ sensor_loop_pass({StreamWindow})
    /\ cursor' = cursor + FRAME_LEN

\* The line drops the next byte: it never reaches the input buffer.
LoseByte ==
    /\ cursor % FRAME_LEN < MaxLost
    /\ cursor < MaxFrames * FRAME_LEN
    /\ cursor' = cursor + 1
    /\ resp' = NoResp
    /\ UNCHANGED <<clockVars, sensor_readings, appendedAt, settings, sensorPresent,
                   loopVars, txn, busVars, voiceVars>>

NextStream ==
    \/ StreamRead
    \/ LoseByte
    \/ Sleep
    \/ SensorLoopReturn
    \/ Tick

SpecStream == InitFrame /\ [][NextStream]_vars

\* ---------------------------------------------------------------------------
\* Full reads that differ after the data bytes.  The first six bytes are one
\* of three heads (two good headers with different data, one bad header); the
\* last four are the two id bytes, the checksum byte (the sum of bytes 2-7
\* modulo 256, or one more) and the tail byte (0xAB or 0).
\* ---------------------------------------------------------------------------
TailHeads ==
    { <<HEADER, COMMAND_ID, 44, 1, 80, 2>>,
      <<HEADER, COMMAND_ID, 100, 0, 80, 0>>,
      <<HEADER, 193, 44, 1, 80, 2>> }

TailFrames ==
    { h \o <<id1, 0, (h[3] + h[4] + h[5] + h[6] + id1 + wrong) % 256, tail>> :
        h \in TailHeads, id1 \in {0, 7}, wrong \in {0, 1}, tail \in {171, 0} }

\* A pass of the loop whose read returns one of these frames.
DecodePass ==
    /\ sensor_loop_pass(TailFrames)
    /\ UNCHANGED cursor

NextDecode ==
    \/ DecodePass
    \/ Sleep
    \/ SensorLoopReturn

SpecDecode == InitFrame /\ [][NextDecode]_vars

(***************************************************************************)
(* The voice thread: voice_listener_loop (lines 1070-1134).  Every event   *)
(* it publishes is one call of broadcast_to_clients, which runs as the     *)
(* steps BroadcastNext and BroadcastRemove while sessions come and go; the *)
(* thread goes on when the call has returned or raised.  events holds what *)
(* the thread has published since its last 'listening', that one included. *)
(* process_voice_command and speak_response catch every exception, so the  *)
(* answer branch reaches broadcast_response whenever "puff" was heard.     *)
(***************************************************************************)
MaxVoicePublishes == 4

\* The call before the current statement has ended, and how.
Returned == pubPc = "idle"
Raised == pubErr # "none"

\* broadcast_listening_status(event) or broadcast_response is called.
publish(event, after) ==
    /\ pubCalls < MaxVoicePublishes
    /\ broadcast_to_clients_call
    /\ vpc' = after
    /\ events' = IF event = "listening" THEN <<event>> ELSE Append(events, event)

\* A statement of the loop that publishes nothing.
goto(after) ==
    /\ vpc' = after
    /\ resp' = NoResp
    /\ UNCHANGED <<coreVars, busVars, events>>

\* Lines 1080-1088: a microphone is found and opened (a failure here sleeps
\* two seconds and tries again, which changes nothing).
voice_setup ==
    /\ vpc = "mic"
    /\ goto("top")

\* Line 1093.
voice_listening ==
    /\ vpc = "top"
    /\ publish("listening", "listen")

\* Lines 1095-1102 and 1122-1123: noise adjustment and recognizer.listen.
voice_listen ==
    /\ vpc = "listen" /\ Returned
    /\ IF Raised
       THEN goto("except")
       ELSE \E outcome \in {"audio", "WaitTimeoutError", "Exception"} :
              goto(CASE outcome = "audio" -> "heard"
                     [] outcome = "WaitTimeoutError" -> "done"
                     [] outcome = "Exception" -> "except")

\* Line 1103.
voice_processing ==
    /\ vpc = "heard"
    /\ publish("processing", "recognize")

\* Lines 1105-1121: recognize_google, and for a text with "puff" in it
\* process_voice_command and speak_response.
voice_recognize ==
    /\ vpc = "recognize" /\ Returned
    /\ IF Raised
       THEN goto("except")
       ELSE \E outcome \in {"puff", "other text", "UnknownValueError", "RequestError",
                             "Exception"} :
              goto(CASE outcome = "puff" -> "answer"
                     [] outcome = "Exception" -> "except"
                     [] OTHER -> "done")

\* Line 1113.
voice_response ==
    /\ vpc = "answer"
    /\ publish("response", "responded")

voice_responded ==
    /\ vpc = "responded" /\ Returned
    /\ goto(IF Raised THEN "except" ELSE "done")

\* Line 1124: the end of a cycle that raised nothing.
voice_idle ==
    /\ vpc = "done"
    /\ publish("idle", "idled")

voice_next_cycle ==
    /\ vpc = "idled" /\ Returned
    /\ goto(IF Raised THEN "except" ELSE "top")

\* Lines 1126-1128: the handler of the inner try publishes 'idle'.
voice_except ==
    /\ vpc = "except"
    /\ publish("idle", "break")

\* Lines 1129-1134: sleep and break; if the handler's own publish raised, the
\* outer handler sleeps instead.  Either way the microphone is set up anew.
voice_break ==
    /\ vpc = "break" /\ Returned
    /\ goto("mic")

NextVoice ==
    \/ voice_setup
    \/ voice_listening
    \/ voice_listen
    \/ voice_processing
    \/ voice_recognize
    \/ voice_response
    \/ voice_responded
    \/ voice_idle
    \/ voice_next_cycle
    \/ voice_except
    \/ voice_break
    \/ BroadcastNext
    \/ BroadcastRemove
    \/ \E c \in Clients : ws_handler_add(c)
    \/ \E c \in Clients : SocketBreaks(c)
    \/ \E c \in Clients : ws_handler_except(c)

SpecVoice == Init /\ [][NextVoice]_vars

(***************************************************************************)
(* Claims about the acquisition loop and the decoder.                      *)
(***************************************************************************)
InReading == pc \in {"read", "sleep"}

FullRead(d) == Len(d) = FRAME_LEN
HeaderOk(d) == d[1] = HEADER /\ d[2] = COMMAND_ID
ExampleFrame(d) == FullRead(d) /\ SubSeq(d, 1, 6) = <<170, 192, 44, 1, 80, 2>>

\* C1: every sample the loop appends is the decoded pair multiplied by the
\* calibration factors of the settings current at that moment (raw 10.0 under a
\* factor of 2 is stored as 20.0).
C1_StoredSampleIsCalibrated ==
    [][Len(sensor_readings') > Len(sensor_readings) =>
         LET r == sensor_readings'[Len(sensor_readings')]
             s == get_settings
         IN  /\ r.pm25 * Tenths = pm'.pm25 * s.pm25_calibration
             /\ r.pm10 * Tenths = pm'.pm10 * s.pm10_calibration]_vars

\* The formula of the decode and its inverse: the result is fixed by bytes 2-5,
\* and bytes 2-5 are recovered from the result.
DecodeFormula(d, r) ==
    /\ r # None
    /\ r.pm25 = d[3] + 256 * d[4]
    /\ r.pm10 = d[5] + 256 * d[6]
    /\ d[3] = r.pm25 % 256 /\ d[4] = r.pm25 \div 256
    /\ d[5] = r.pm10 % 256 /\ d[6] = r.pm10 \div 256

\* C2 as stated: a full read with header 0xAA 0xC0 decodes to
\* pm25 = (b2 + 256*b3)/10 and pm10 = (b4 + 256*b5)/10, losslessly, and
\* [0xAA,0xC0,44,1,80,2,...] gives pm25 = 30.0 and pm10 = 64.0.
C2_DecodeAsStated ==
    (readExc = "none" /\ FullRead(data) /\ HeaderOk(data)) =>
        /\ DecodeFormula(data, pm)
        /\ ExampleFrame(data) => (pm.pm25 = 300 /\ pm.pm10 = 640)

\* C2 amended: the same decode; [0xAA,0xC0,44,1,80,2,...] gives pm25 = 30.0 and
\* pm10 = 59.2 (80 + 2*256 = 592 tenths).
C2_Decode ==
    (readExc = "none" /\ FullRead(data) /\ HeaderOk(data)) =>
        /\ DecodeFormula(data, pm)
        /\ ExampleFrame(data) => (pm.pm25 = 300 /\ pm.pm10 = 592)

C2_Witness == readExc = "none" /\ ExampleFrame(data) /\ pm # None /\ pc = "sleep"

\* C3: a full 10-byte read whose first two bytes are not 0xAA, 0xC0 gives no
\* sample, raises nothing, and the loop appends nothing for that read.
C3_BadHeaderNoSample ==
    [][(pc = "read" /\ pc' # "read" /\ readExc' = "none"
          /\ FullRead(data') /\ ~HeaderOk(data'))
       => (/\ pm' = None
           /\ pc' = "sleep"
           /\ exc' = exc
           /\ sensor_readings' = sensor_readings)]_vars

C3_Witness ==
    /\ pc = "sleep" /\ readExc = "none" /\ pm = None
    /\ FullRead(data) /\ data[1] = HEADER /\ data[2] # COMMAND_ID

\* C4: a failure to open the sensor link is never fatal to the loop: it backs
\* off and connects again, so the thread never ends on an open failure.
C4_OpenFailureNeverFatal == ~(pc = "returned" /\ exc = "NoSensor")

\* C5: once a read on the link has raised, the loop has left Reading (to
\* re-open the link); it is not about to read the failed handle again.
C5_ReadExceptionLeavesReading == readExc # "none" => ~InReading

\* C6: a storage error on append does not end the loop.
C6_AppendFailureNotFatal == ~(pc = "returned" /\ exc = "StorageError")

(***************************************************************************)
(* Claims about the store and its queries (checked under SpecStore).       *)
(***************************************************************************)
NamedWindows == { "24h", "7d", "30d" }

\* The length of a named window, in hours.
WindowLength(tf) == IF tf = "24h" THEN Day ELSE IF tf = "7d" THEN 7 * Day ELSE 30 * Day

\* The rows of a query result, one triple per returned sample.
RowsOf(h) ==
    [k \in 1..Len(h.timestamps) |-> <<h.pm25_values[k], h.pm10_values[k], h.timestamps[k]>>]

Ascending(ts) == \A j, k \in 1..Len(ts) : j < k => ~TextLess(ts[k], ts[j])

Count(rows, v) == Cardinality({ k \in 1..Len(rows) : rows[k] = v })

\* Every row of a occurs in b at least as often as in a.
Contained(a, b) == \A k \in 1..Len(a) : Count(a, a[k]) <= Count(b, a[k])

HistoryAnswered == resp.kind = "history" /\ resp.status = 200

\* C7: query(window) at instant now returns exactly the stored samples written
\* strictly later than now minus the window length, in ascending timestamp
\* order (empty when there are none): append and query use the same clock.
C7_QueryWindowExact ==
    (HistoryAnswered /\ resp.tf \in NamedWindows) =>
        LET wanted == { i \in 1..Len(sensor_readings) :
                          appendedAt[i] > now - WindowLength(resp.tf) }
        IN  /\ resp.body = HistoryOf(OrderByTimestamp(wanted))
            /\ Ascending(resp.body.timestamps)

\* C8: every sample query('24h') returns is returned by query('7d'), and every
\* sample query('7d') returns is returned by query('30d').
C8_WindowsNested ==
    HistoryAnswered =>
        /\ resp.tf = "24h" => Contained(RowsOf(resp.body), RowsOf(query_history("7d")))
        /\ resp.tf = "7d" => Contained(RowsOf(resp.body), RowsOf(query_history("30d")))

C8_Witness ==
    /\ HistoryAnswered /\ resp.tf = "24h"
    /\ Len(resp.body.timestamps) = 1
    /\ Len(query_history("7d").timestamps) = 2

\* C9: latest() is a stored sample of the greatest timestamp, and on an empty
\* store the answer is NotFound (404), not an exception.
C9_LatestIsMaxTimestamp ==
    (resp.kind = "current" /\ resp.status # 500) =>
        IF sensor_readings = <<>>
        THEN resp.status = 404
        ELSE /\ resp.status = 200
             /\ \E i \in 1..Len(sensor_readings) : sensor_readings[i] = resp.body
             /\ \A i \in 1..Len(sensor_readings) :
                  ~TextLess(resp.body.timestamp, sensor_readings[i].timestamp)

C9_Witness ==
    /\ resp.kind = "current" /\ resp.status = 200
    /\ Len(sensor_readings) = 2
    /\ resp.body = sensor_readings[1]
    /\ TextLess(sensor_readings[2].timestamp, sensor_readings[1].timestamp)

\* value is the greatest of values and ts the timestamp of its first occurrence.
IsFirstMax(values, timestamps, value, ts) ==
    \E k \in 1..Len(values) :
        /\ values[k] = value
        /\ timestamps[k] = ts
        /\ \A j \in 1..Len(values) : values[j] <= value
        /\ \A j \in 1..(k - 1) : values[j] < value

\* C10: highest(window) is None on an empty window; otherwise, separately for
\* pm25 and pm10, the value is the maximum over query(window) and the timestamp
\* is that of the first sample attaining it.
C10_HighestIsFirstMax ==
    (resp.kind = "highest" /\ resp.logged = "none") =>
        LET h == query_history(resp.tf)
        IN  IF Len(h.timestamps) = 0
            THEN resp.result = None
            ELSE /\ resp.result # None
                 /\ IsFirstMax(h.pm25_values, h.timestamps,
                               resp.result.pm25.value, resp.result.pm25.timestamp)
                 /\ IsFirstMax(h.pm10_values, h.timestamps,
                               resp.result.pm10.value, resp.result.pm10.timestamp)

C10_Witness ==
    /\ resp.kind = "highest" /\ resp.logged = "none" /\ resp.result # None
    /\ resp.result.pm25.timestamp # resp.result.pm10.timestamp
    /\ LET h == query_history(resp.tf)
       IN  Len(h.pm25_values) = 2 /\ h.pm25_values[1] = h.pm25_values[2]

(***************************************************************************)
(* Claims about find_last_spike (checked under SpecSpike).                 *)
(***************************************************************************)
\* Five times the mean of values[k..k+4].
WinSum(values, k) == values[k] + values[k + 1] + values[k + 2] + values[k + 3] + values[k + 4]

\* The positions k >= 2 (the claim's i = k - 1 >= 1) with avg[i] > avg[i-1] * f.
SpikePositions(values, factor) ==
    { k \in 2..Len(values) :
        /\ k + 4 <= Len(values)
        /\ WinSum(values, k) * 10 > WinSum(values, k - 1) * factor }

SetMax(S) == CHOOSE x \in S : \A y \in S : y <= x

SpikeAnswered == resp.kind = "spike" /\ resp.logged = "none"

\* C11: lastSpike reports the largest index i >= 1 with avg[i] > avg[i-1]*f, as
\* the raw sample at the start of window i with baseline avg[i-1]; for pm25 =
\* [10,10,10,10,10,50] and f = 1.5 that is index 1, value 10, baseline 10.
C11_LastSpikeIsNewestIndex ==
    SpikeAnswered =>
        LET h == query_history("24h")
            v == h.pm25_values
            S == SpikePositions(v, resp.factor)
        IN  /\ S # {} =>
                 /\ resp.result # None
                 /\ resp.result.timestamp = h.timestamps[SetMax(S)]
                 /\ resp.result.value = v[SetMax(S)]
                 /\ resp.result.baseline = WinSum(v, SetMax(S) - 1)
            /\ (v = <<100, 100, 100, 100, 100, 500>> /\ resp.factor = 15) =>
                 /\ resp.result # None
                 /\ resp.result.timestamp = h.timestamps[2]
                 /\ resp.result.value = 100
                 /\ resp.result.baseline = 5 * 100

C11_Witness ==
    /\ SpikeAnswered /\ resp.factor = 15 /\ resp.result # None
    /\ query_history("24h").pm25_values = <<100, 100, 100, 100, 100, 500>>

\* C12: lastSpike is None, and nothing is raised, when the window holds fewer
\* than 5 samples or no index i >= 1 has avg[i] > avg[i-1]*f (so for every
\* window of exactly 5 samples).
C12_NoSpikeIsNone ==
    (resp.kind = "spike" /\ resp.result # None) =>
        LET v == query_history("24h").pm25_values
        IN  /\ resp.logged = "none"
            /\ Len(v) > 5
            /\ SpikePositions(v, resp.factor) # {}

C12_Witness ==
    /\ SpikeAnswered /\ resp.result = None
    /\ LET v == query_history("24h").pm25_values
       IN  Len(v) = 5 /\ v[1] = 100 /\ v[5] = 500

\* C13: when the storage query fails, highest and lastSpike hand their caller
\* a storage error, never the None that an empty window gives.
C13_StorageFailureIsNotNone ==
    (resp.kind \in {"highest", "spike"} /\ resp.logged # "none") => resp.result # None

(***************************************************************************)
(* Claims about the settings store.                                        *)
(***************************************************************************)
\* The six fields of a stored row, by the column each was inserted into.
StoredVersion(i) ==
    [pm25_warning |-> settings[i][2], pm25_critical |-> settings[i][3],
     pm10_warning |-> settings[i][4], pm10_critical |-> settings[i][5],
     pm25_calibration |-> settings[i][6], pm10_calibration |-> settings[i][7]]

\* C14: after an accepted update with body X the current settings are exactly
\* X in all six fields, and whatever updates came before, a successful read
\* returns the version inserted last.
C14_UpdateThenGetRoundTrip ==
    /\ (resp.kind = "settings_post" /\ resp.status = 200)
          => /\ DOMAIN get_settings = SettingsFields
             /\ \A f \in SettingsFields : get_settings[f] = resp.data[f]
    /\ (resp.kind = "settings_get" /\ resp.status = 200)
          => resp.body = StoredVersion(Len(settings))

C14_Witness ==
    /\ resp.kind = "settings_post" /\ resp.status = 200
    /\ Len(settings) = 3
    /\ StoredVersion(1) # StoredVersion(2)
    /\ StoredVersion(2) # StoredVersion(3)

\* C15: a body that lacks one of the six fields is answered with the
\* validation error (400) and the table is left as it was.
C15_MissingFieldNoWrite ==
    [][(resp'.kind = "settings_post" /\ ~(SettingsFields \subseteq DOMAIN resp'.data))
          => (resp'.status = 400 /\ settings' = settings)]_vars

C15_Witness ==
    /\ resp.kind = "settings_post" /\ resp.status = 400
    /\ DOMAIN resp.data = {"pm25_warning", "pm25_critical"}
    /\ Len(settings) = 2

\* C16: the current settings always have both calibration factors above 0.
C16_CalibrationAlwaysPositive ==
    get_settings # None
      => (get_settings.pm25_calibration > 0 /\ get_settings.pm10_calibration > 0)

\* C17: a read of the settings that storage serves always carries a settings
\* value, never not-found; on a first boot that value is the defaults, and
\* they are in the table.
C17_GetNeverNotFound ==
    /\ (resp.kind = "settings_get" /\ resp.status # 500)
          => (resp.status = 200 /\ DOMAIN resp.body = SettingsFields)
    /\ (resp.kind = "settings_get" /\ resp.status = 200 /\ Len(settings) = 1)
          => (resp.body = DefaultSettings /\ settings[1] = DefaultRow)
    /\ pc \notin {"boot", "aborted"} => settings # <<>>

C17_Witness ==
    /\ resp.kind = "settings_get" /\ resp.status = 200
    /\ resp.body = DefaultSettings
    /\ settings = <<DefaultRow>>

(***************************************************************************)
(* Claims about the WebSocket bus.                                         *)
(***************************************************************************)
\* C18: when a broadcast has ended, no session whose send failed in it is
\* still in the subscriber set.
C18_FailedSubscriberRemoved ==
    (pubPc = "idle" /\ pubCalls > 0) => dead_clients \cap ws_clients = {}

\* C19: when a broadcast has ended, every session that was in the set when
\* it started and is still in it has had its send attempted.
C19_EverySubscriberSentTo ==
    (pubPc = "idle" /\ pubCalls > 0) => (iterStart \cap ws_clients) \subseteq visited

\* C20: no broadcast ends with the iterator's RuntimeError "Set changed size
\* during iteration".
C20_IterationNeverFails == pubErr # "RuntimeError"

\* C21: no removal is ever attempted on a session that is not in the set:
\* neither a handler nor a broadcast ends with the KeyError of set.remove.
C21_NoRemovalOfAbsentHandle == ws_raised = {} /\ pubErr # "KeyError"

\* C22: every broadcast a session has received ended after the session
\* subscribed; nothing published earlier is replayed to it.
C22_NoReplay ==
    \A c \in Clients : \A e \in delivered[c] : e > joinedAt[c]

C22_Witness ==
    \E c, d \in Clients :
        /\ 1 \in delivered[d]
        /\ joinedAt[c] >= 1
        /\ delivered[c] # {}
        /\ 1 \notin delivered[c]

(***************************************************************************)
(* Claims about who writes the samples.                                    *)
(***************************************************************************)
\* C23: the number of stored samples changes only in a step of the sensor
\* loop that has decoded a reading, and then by exactly that one reading.
C23_LoopIsSoleWriter ==
    [][Len(sensor_readings') # Len(sensor_readings)
         => /\ pc = "read" /\ pc' = "sleep" /\ pm' # None
            /\ Len(sensor_readings') = Len(sensor_readings) + 1
            /\ sensor_readings'[Len(sensor_readings')].pm25 = pm'.pm25
            /\ sensor_readings'[Len(sensor_readings')].pm10 = pm'.pm10]_vars

C23_Witness ==
    /\ Len(sensor_readings) = 2
    /\ resp.kind = "voice" /\ resp.branch = "current" /\ resp.data # None
    /\ pubCalls >= 1
    /\ Len(settings) = MaxSettings

\* C24: no step changes or removes a sample that is already stored.
C24_StoredSampleImmutable ==
    [][\A i \in 1..Len(sensor_readings) :
          /\ i <= Len(sensor_readings')
          /\ sensor_readings'[i] = sensor_readings[i]]_vars

C24_Witness ==
    /\ Len(sensor_readings) = 2
    /\ resp.kind = "settings_post" /\ resp.status = 200
    /\ pubCalls >= 1
    /\ sensor_readings[1].pm25 # sensor_readings[2].pm25

(***************************************************************************)
(* Claims about window names.                                              *)
(***************************************************************************)
\* C27: a history request whose window name is none of '24h', '7d', '30d'
\* is answered with what the '24h' window holds at that instant.
C27_UnknownWindowIs24h ==
    (resp.kind = "history" /\ resp.status = 200 /\ resp.tf \notin {"24h", "7d", "30d"})
      => resp.body = query_history("24h")

C27_Witness ==
    /\ resp.kind = "history" /\ resp.status = 200 /\ resp.tf = "1y"
    /\ Len(resp.body.timestamps) = 1
    /\ Len(query_history("7d").timestamps) = 2

(***************************************************************************)
(* Claims about a settings read that races an update.                      *)
(***************************************************************************)
\* C26: whatever an update is doing at the time, a successful read returns
\* one complete stored version: the newest committed one, which is the old
\* version while the update is uncommitted and the new one afterwards.
C26_ReadIsOneVersion ==
    (resp.kind = "settings_get" /\ resp.status = 200)
      => resp.body = StoredVersion(Len(settings))

C26_Witness ==
    /\ resp.kind = "settings_get" /\ resp.status = 200
    /\ txn # None
    /\ Len(settings) = 2
    /\ \A f \in SettingsFields : txn[f] # StoredVersion(2)[f]

\* C28: when the last 24 hours hold no spike and the last 7 days do, the
\* last-spike operation asked for the 7-day window returns that spike.  The
\* program's one last-spike operation takes no window, so every call of it
\* stands for that request.
C28_SpikeOverRequestedWindow ==
    SpikeAnswered =>
      LET s1 == find_last_spike(query_history("24h"), resp.factor)
          s7 == find_last_spike(query_history("7d"), resp.factor)
      IN  (s1 = None /\ s7 # None) => resp.result = s7

\* C29: after a 10-byte window is rejected for a bad header, the next decode
\* attempt starts one byte after the start of the rejected window.
C29_CursorAdvancesByOne ==
    [][(pc = "read" /\ pc' = "sleep" /\ readExc' = "none"
          /\ FullRead(data') /\ ~HeaderOk(data'))
       => cursor' = cursor + 1]_vars

\* C30: a read that returns fewer than 10 bytes is not an error: it gives no
\* sample, raises nothing, appends nothing, and the loop goes to its sleep and
\* from there back to reading, on the same serial handle throughout.
C30_ShortReadIsRetried ==
    [][/\ (pc = "read" /\ pc' # "read" /\ readExc' = "none" /\ Len(data') < FRAME_LEN)
          => (/\ pm' = None
              /\ pc' = "sleep"
              /\ exc' = exc
              /\ sensor_readings' = sensor_readings
              /\ ser' = ser /\ attempt' = attempt)
       /\ (pc = "sleep" /\ pc' # "sleep" /\ readExc = "none" /\ Len(data) < FRAME_LEN)
          => (pc' = "read" /\ ser' = ser /\ exc' = exc)]_vars

C30_Witness ==
    /\ pc = "read" /\ readExc = "none" /\ pm = None
    /\ Len(data) = FRAME_LEN - 1 /\ data[1] = HEADER /\ data[2] = COMMAND_ID
    /\ ser = "open" /\ exc = "none"

\* C31: a pass of the reading loop (a decode attempt) always ends in the
\* loop's sleep, or ends the loop when the append raised; it appends at most one
\* sample, and none when nothing was decoded; the next attempt is entered only
\* out of that sleep (or out of setup, for the first one), the sleep leads
\* nowhere but to the next attempt, and nothing is appended while sleeping.
C31_OneSleepPerAttempt ==
    [][/\ (pc = "read" /\ <<pc, data, readExc, pm>>' # <<pc, data, readExc, pm>>)
          => (/\ pc' \in {"sleep", "backoff"}
              /\ Len(sensor_readings') <= Len(sensor_readings) + 1
              /\ pm' = None => (pc' = "sleep" /\ sensor_readings' = sensor_readings))
       /\ (pc # "read" /\ pc' = "read")
          => (pc \in {"sleep", "setup"} /\ sensor_readings' = sensor_readings)
       /\ (pc = "sleep" /\ pc' # "sleep") => pc' = "read"
       /\ pc = "sleep" => sensor_readings' = sensor_readings]_vars

C31_Witness ==
    /\ pc = "read" /\ readExc = "none" /\ pm = None
    /\ Len(data) = FRAME_LEN /\ data[2] # COMMAND_ID
    /\ Len(sensor_readings) = 1

\* C32: every stored sample inside the window is returned by the history query,
\* samples with equal timestamps included, each exactly once, and a sample's
\* place in the answer is one more than the number of window samples with an
\* earlier timestamp or with the same timestamp and an earlier insertion.
HistoryRank(W, i) ==
    1 + Cardinality({ j \in W :
          \/ TextLess(sensor_readings[j].timestamp, sensor_readings[i].timestamp)
          \/ (sensor_readings[j].timestamp = sensor_readings[i].timestamp /\ j < i) })

CurrentRows(t) == { i \in DOMAIN t : \A j \in DOMAIN t : t[j][1] <= t[i][1] }

C33_SettingsAppendOnly ==
    [][/\ settings' # settings
          => (/\ Len(settings') = Len(settings) + 1
              /\ \A i \in DOMAIN settings : settings'[i] = settings[i]
              /\ \A i \in DOMAIN settings : settings[i][1] < settings'[Len(settings')][1])
       /\ (resp'.kind = "settings_post" /\ resp'.status = 200)
          => (/\ Len(settings') = Len(settings) + 1
              /\ StoredVersion(Len(settings))' = resp'.data)
       /\ settings' # <<>> => Cardinality(CurrentRows(settings')) = 1]_vars

C33_Witness ==
    /\ resp.kind = "settings_post" /\ resp.status = 200
    /\ Len(settings) = MaxSettings
    /\ settings[1] = DefaultRow
    /\ StoredVersion(2) # StoredVersion(3)
    /\ CurrentRows(settings) = {3}

\* C34: the outcome of decoding a full read is decided by its bytes 0-5 alone:
\* whatever full read was decoded last, every full read with the same first
\* six bytes decodes to the same sample or the same rejection.
C34_TailBytesIgnored ==
    (pc # "read" /\ readExc = "none" /\ FullRead(data))
    => \A d \in TailFrames :
         SubSeq(d, 1, 6) = SubSeq(data, 1, 6) => read_sensor_data(d) = pm

C34_Witness ==
    /\ pc = "sleep" /\ readExc = "none" /\ FullRead(data) /\ HeaderOk(data)
    /\ data[9] # (data[3] + data[4] + data[5] + data[6] + data[7] + data[8]) % 256
    /\ data[10] # 171
    /\ pm # None
    /\ Len(sensor_readings) > 0
    /\ sensor_readings[Len(sensor_readings)].pm25 = pm.pm25

\* C35: what the voice thread publishes in one cycle is 'listening', then at
\* most one 'processing', then at most one 'response' (only after
\* 'processing'), then 'idle' once; and when the next 'listening' is
\* published, the cycle before it has published its 'idle'.
CycleEvents ==
    { <<"listening", "idle">>,
      <<"listening", "processing", "idle">>,
      <<"listening", "processing", "response", "idle">> }

C35_CycleEventOrder ==
    [][/\ \E cycle \in CycleEvents :
            Len(events') <= Len(cycle) /\ events' = SubSeq(cycle, 1, Len(events'))
       /\ (events' # events /\ events' = <<"listening">> /\ events # <<>>)
            => events \in CycleEvents]_vars

\* C36: a session whose handler is running on a live socket is in ws_clients;
\* a session leaves ws_clients only when its handler ends on a failed receive
\* or when a broadcast's send to it failed; and a session whose handler has
\* not started or has ended is not in ws_clients.
C36_NoLeakedSession ==
    [][\A c \in Clients :
         /\ conn'[c] = "open" => c \in ws_clients'
         /\ conn'[c] \in {"none", "closed"} => c \notin ws_clients'
         /\ (c \in ws_clients /\ c \notin ws_clients')
              => (conn'[c] = "closed" \/ (conn[c] = "broken" /\ c \in dead_clients))]_vars

C36_Witness ==
    \E c, d \in Clients :
      /\ conn[c] = "closed" /\ c \notin ws_raised /\ c \notin ws_clients
      /\ conn[d] = "broken" /\ d \in dead_clients /\ d \notin ws_clients
      /\ pubPc = "idle" /\ pubErr = "none"

\* C37: init_db never changes a sample; on a table that holds a settings
\* version it changes no version, so the current settings after it are the
\* ones before it; on an empty table it inserts exactly one version, the
\* defaults 12.0, 35.0, 54.0, 154.0, 1.0, 1.0, unless it fails, and then it
\* inserts nothing.
C37_InitDbIdempotent ==
    [][(pc = "boot" /\ pc' # "boot")
       => /\ sensor_readings' = sensor_readings
          /\ settings # <<>> => (settings' = settings /\ get_settings' = get_settings)
          /\ (settings = <<>> /\ pc' = "setup")
               => (/\ Len(settings') = 1
                   /\ get_settings' = [pm25_warning |-> 120, pm25_critical |-> 350,
                                        pm10_warning |-> 540, pm10_critical |-> 1540,
                                        pm25_calibration |-> 10, pm10_calibration |-> 10])
          /\ (settings = <<>> /\ pc' # "setup") => settings' = <<>>]_vars

C37_Witness ==
    /\ pc = "setup" /\ resp = NoResp
    /\ Len(settings) = MaxSettings
    /\ StoredVersion(MaxSettings) # DefaultSettings
    /\ Len(sensor_readings) = 1

====
